---- MODULE Spec2Model ----
(***************************************************************************)
(* State-machine model of the whisperServer job pipeline                   *)
(* (src/src/workers/whisper_worker.py, src/src/app.py,                     *)
(* src/src/job_persist.py, src/src/services/gemini_service.py): the job    *)
(* table and its file, the task queue, the single worker thread, the       *)
(* transcription process with its timeout timer thread and its progress    *)
(* arithmetic, the refinement call with its retries, the steps of a save,  *)
(* and process restart with startup recovery.                              *)
(***************************************************************************)
EXTENDS Integers, Sequences, FiniteSets, TLC

\* ------------------------------------------------------------- bounds
MaxJobs == 1        \* job identifiers that upload may create
MaxQueue == 2       \* tasks waiting in task_queue
MaxLines == 2       \* output lines read in one transcription run
MaxTime == 3        \* largest timeline start time, in seconds
MaxRestarts == 1    \* process restarts
MaxTotal == 50      \* largest media duration of the progress runs, seconds
MaxStart == 29      \* largest timeline start of the progress runs, seconds
MaxNow == 2         \* readings of the clock, datetime.now()

JobIds == 1..MaxJobs
Times == 0..MaxTime
Stamps == 1..MaxNow

\* ------------------------------------------------------ program values
\* JobStatus (whisper_worker.py 15-21)
PENDING == "pending"
RUNNING == "running"
REFINING_PENDING == "refining_pending"
REFINING == "refining"
COMPLETED == "completed"
FAILED == "failed"

\* Python None for an unset field, and the values the code stores
None == "None"
TIMEOUT_DETAIL == "timeout"         \* status_detail '타임아웃'
PHASE_PRE == "preprocessing"        \* phase '전처리 중'
PHASE_TRANSCRIBING == "transcribing" \* phase '전사 중'
PHASE_FINISHED == "finished"        \* phase '전사 완료'
NoPercent == 0 - 1                  \* job has no progress_percent key yet
NoDuration == 0                     \* media_duration_seconds is None
NoStamp == 0                        \* job has no started_at / completed_at key yet
Durations == {NoDuration, 2}        \* probed whole-second durations

\* the input path of a task: the job's wav in UPLOAD_FOLDER, or empty
WavPath == "wav"
EmptyPath == ""
\* the canonical transcript path RESULT_FOLDER/<job_id>.txt and the refined one
TxtPath == "txt"
RefinedPath == "refined_txt"

\* ------------------------------------------------------------ variables
VARIABLES
    jobs,            \* in-memory job table: job id -> record
    disk,            \* jobs.json and the temp file of a save in its directory
    uploads,         \* job ids whose wav artifact exists in UPLOAD_FOLDER
    results,         \* job ids whose RESULT_FOLDER/<id>.txt exists
    refinedFiles,    \* job ids whose RESULT_FOLDER/<id>_refined.txt exists
    task_queue,      \* FIFO of tasks [id, path]; id = 0 is the None sentinel
    worker_threads,  \* number of threads in the worker_threads list
    stopping,        \* lifespan has left its yield: shutdown_workers ran
    pc,              \* position of the worker thread
    cur,             \* the task the worker holds: [id, path]
    run,             \* locals of the current _run_whisper / _task_refining
    restarts,        \* restarts so far
    callers,         \* position of each thread that calls start_worker
    second,          \* a second worker thread, if one was started
    jobs_lock,       \* the thread inside `with jobs_lock`, or "free"
    prom_init_done,  \* the flag _prom_init_done of prom_init_once
    thr              \* each thread's remaining steps relative to jobs_lock

lockvars == <<jobs_lock, prom_init_done, thr>>

vars == <<jobs, disk, uploads, results, refinedFiles, task_queue,
          worker_threads, stopping, pc, cur, run, restarts, callers, second, lockvars>>

files == <<uploads, results, refinedFiles>>

\* -------------------------------------------------------------- job store
EmptyTable == [j \in {} |-> None]

\* the fields whose value is a string or None; the others hold integers,
\* which json writes and reads as numbers
NullableFields == {"status", "status_detail", "result", "result_refined", "phase"}

\* json.dumps / json.load on the value of field f: None is written as null
JsonNull == "null"
ToJson(f, v) == IF f \in NullableFields /\ v = None THEN JsonNull ELSE v

\* mutant of FromJson: null is handed back as it is read
FromJsonKeepNull(f, x) == x

FromJson(f, x) == IF f \in NullableFields /\ x = JsonNull THEN None ELSE x

\* mutant of Dumps: the completed jobs are left out of the document
DumpsWithoutCompleted(t) ==
    [j \in {k \in DOMAIN t : t[k].status # COMPLETED} |->
        [f \in DOMAIN t[j] |-> ToJson(f, t[j][f])]]

\* json.dumps(jobs) and json.load(f) on a whole table
Dumps(t) ==
    [j \in DOMAIN t |-> [f \in DOMAIN t[j] |-> ToJson(f, t[j][f])]]
Loads(doc) ==
    [j \in DOMAIN doc |-> [f \in DOMAIN doc[j] |-> FromJson(f, doc[j][f])]]

\* The job file is [state, table, tmp]: state is "missing", "empty" (zero
\* length), "corrupt" (text json.load cannot parse) or "ok" (a complete
\* document, held in table); tmp is the temp file of the save under way:
\* "none", "empty", "partial" or "full".
NoFile == [state |-> "missing", table |-> EmptyTable, tmp |-> "none"]

\* mutant of load_jobs: whatever text the file holds is taken as the table
load_jobs_lenient(d) ==
    IF d.state \in {"missing", "empty"} THEN EmptyTable ELSE Loads(d.table)

\* load_jobs lines 14-21: {} for a missing file and for any exception of
\* open / json.load
load_jobs(d) ==
    IF d.state = "missing" THEN EmptyTable
    ELSE IF d.state # "ok" THEN EmptyTable
    ELSE Loads(d.table)

\* save_jobs lines 24-61 as a whole: the file holds the complete new document
save_jobs(t) == [state |-> "ok", table |-> Dumps(t), tmp |-> "none"]

\* utils/text.py format_seconds: "MM:SS", or "H:MM:SS" from one hour on;
\* the text is held as its three numbers
format_seconds(sec) ==
    [kind |-> "text", h |-> sec \div 3600, m |-> (sec % 3600) \div 60,
     s |-> sec % 60]

\* app.py line 144: the 'duration' key upload_file stores is what ffprobe
\* gave, whole seconds or None
MediaDuration(d) ==
    IF d = NoDuration THEN [kind |-> "null", h |-> 0, m |-> 0, s |-> 0]
    ELSE [kind |-> "seconds", h |-> 0, m |-> 0, s |-> d]

\* the record upload_file creates. started_ts stands for the pair
\* started_at / started_ts and completed_ts for completed_at /
\* completed_ts: each pair is written together from one clock reading.
NewJob(d) ==
    [status |-> PENDING, status_detail |-> None, result |-> None,
     result_refined |-> None, phase |-> None, progress_percent |-> NoPercent,
     media_duration_seconds |-> d, started_ts |-> NoStamp,
     completed_ts |-> NoStamp, duration |-> MediaDuration(d)]

\* _set_job's effect on the table: only an existing job is updated
SetFields(t, j, upd) ==
    IF j \in DOMAIN t THEN [t EXCEPT ![j] = upd @@ @] ELSE t

\* _set_job and every "with jobs_lock: if job_id in jobs: ...; _save_jobs(jobs)"
\* block: mutate under the lock, then rewrite the file in the same section
SetJob(j, upd) ==
    IF j \in DOMAIN jobs
    THEN /\ jobs' = SetFields(jobs, j, upd)
         /\ disk' = save_jobs(jobs')
    ELSE UNCHANGED <<jobs, disk>>

\* ------------------------------------------------------------------ queue
Task(j, p) == [id |-> j, path |-> p]
Sentinel == [id |-> 0, path |-> EmptyPath]
NoTask == [id |-> 0, path |-> None]

\* the threads that may call start_worker, none of them in the call yet
Callers == {1, 2}
NoCallers == [c \in Callers |-> "idle"]

\* no second worker thread
NoSecond == [pc |-> "none", cur |-> NoTask, started |-> NoStamp]

\* the threads that take jobs_lock: the lifespan's startup, a request that
\* uploads, the worker, and a request that only reads
Threads == {"startup", "upload", "worker", "status"}
Idle == [prog |-> <<>>, ext |-> FALSE, runs |-> 0, puts |-> <<>>]
NoThreads == [t \in Threads |-> Idle]

\* locals of a run before _run_whisper starts
NoRun ==
    [proc |-> "none", timer |-> "off", flag |-> FALSE,
     last_percent |-> NoPercent, max_percent |-> NoPercent,
     saw_timeline |-> FALSE, nread |-> 0, exc |-> None, refine |-> None,
     resps |-> <<>>, waits |-> <<>>, started |-> NoStamp]

Init ==
    /\ jobs = EmptyTable
    /\ disk = NoFile
    /\ uploads = {}
    /\ results = {}
    /\ refinedFiles = {}
    /\ task_queue = <<>>
    /\ worker_threads = 0
    /\ stopping = FALSE
    /\ pc = "none"
    /\ cur = NoTask
    /\ run = NoRun
    /\ restarts = 0
    /\ callers = NoCallers
    /\ second = NoSecond
    /\ jobs_lock = "free"
    /\ prom_init_done = FALSE
    /\ thr = NoThreads

\* ---------------------------------------------------------------- producers
\* enqueue_stt: task_queue.put((job_id, filepath))
enqueue_stt(q, j, p) == Append(q, Task(j, p))

\* upload_file: convert to wav, create the record under the lock and save,
\* then enqueue. uuid4 gives a fresh id: the ids are handed out in order.
upload_file(j, d) ==
    /\ ~stopping
    /\ j \notin DOMAIN jobs
    /\ \A i \in JobIds : i < j => i \in DOMAIN jobs
    /\ Len(task_queue) < MaxQueue
    /\ uploads' = uploads \cup {j}
    /\ jobs' = [i \in DOMAIN jobs \cup {j} |-> IF i = j THEN NewJob(d) ELSE jobs[i]]
    /\ disk' = save_jobs(jobs')
    /\ task_queue' = enqueue_stt(task_queue, j, WavPath)
    /\ UNCHANGED <<results, refinedFiles, worker_threads, stopping, pc, cur,
                   run, restarts,
                   callers, second, lockvars>>


\* an external producer calling enqueue_stt for a known job: a duplicate of
\* its transcription task, or a refinement-only re-trigger (empty path)
EnqueueStt(j, p) ==
    /\ ~stopping
    /\ j \in DOMAIN jobs
    /\ Len(task_queue) < MaxQueue
    /\ task_queue' = enqueue_stt(task_queue, j, p)
    /\ UNCHANGED <<jobs, disk, files, worker_threads, stopping, pc, cur, run,
                   restarts,
                   callers, second, lockvars>>

\* an id no record of the table has
UnknownId == MaxJobs + 1

\* enqueue_stt called from outside with an id the table does not hold
EnqueueUnknown(p) ==
    /\ ~stopping
    /\ Len(task_queue) < MaxQueue
    /\ task_queue' = enqueue_stt(task_queue, UnknownId, p)
    /\ UNCHANGED <<jobs, disk, files, worker_threads, stopping, pc, cur, run,
                   restarts, callers, second, lockvars>>

\* start_worker: one daemon thread, only if worker_threads is empty
start_worker ==
    /\ ~stopping
    /\ worker_threads = 0
    /\ worker_threads' = 1
    /\ pc' = "get"
    /\ UNCHANGED <<jobs, disk, files, task_queue, stopping, cur, run, restarts,
                   callers, second, lockvars>>

\* shutdown_workers: one None sentinel per worker thread (join has a timeout)
shutdown_workers ==
    /\ ~stopping
    /\ stopping' = TRUE
    /\ task_queue' = IF worker_threads > 0
                     THEN Append(task_queue, Sentinel) ELSE task_queue
    /\ UNCHANGED <<jobs, disk, files, worker_threads, pc, cur, run, restarts,
                   callers, second, lockvars>>

\* ------------------------------------------------------------ worker_loop
ActiveStatuses == {PENDING, RUNNING, REFINING_PENDING, REFINING}

\* mutant of IsSkipped: only a completed job's task is skipped
IsSkippedOnlyCompleted(st) == st = COMPLETED

\* line 277: a task whose job is in none of the four statuses is skipped
IsSkipped(st) == st \notin ActiveStatuses

\* mutant of RefineOnlyAllowed: honoured in every active status
RefineOnlyAllowedAnyActive(st) == st \in ActiveStatuses

\* line 283: a refinement-only task is honoured in these statuses
RefineOnlyAllowed(st) == st \in {REFINING_PENDING, REFINING}

\* mutant of NeedsTranscribe: every task with an input path is transcribed
NeedsTranscribeAlways(st) == TRUE

\* line 298: the transcription stage runs in these statuses
NeedsTranscribe(st) == st \in {PENDING, RUNNING}

\* mutant of Dispatch: a task with an input path goes straight to refinement
DispatchStraightToRefine(st, path) ==
    IF IsSkipped(st) THEN "finally"
    ELSE IF path = EmptyPath
         THEN (IF RefineOnlyAllowed(st) THEN "set_refining" ELSE "finally")
    ELSE "set_refining"

\* lines 277-308: where a dequeued task goes, from the status just read
Dispatch(st, path) ==
    IF IsSkipped(st) THEN "finally"
    ELSE IF path = EmptyPath
         THEN (IF RefineOnlyAllowed(st) THEN "set_refining" ELSE "finally")
    ELSE IF NeedsTranscribe(st) THEN "set_running"
    ELSE "set_refining"

\* lines 266-308: task_queue.get(), the sentinel test, the status read
\* through _get_job (None for an unknown id: AttributeError ends the thread)
Dequeue ==
    /\ pc = "get"
    /\ task_queue # <<>>
    /\ task_queue' = Tail(task_queue)
    /\ LET t == Head(task_queue) IN
       IF t = Sentinel
       THEN pc' = "stopped" /\ cur' = NoTask
       ELSE IF t.id \notin DOMAIN jobs
       THEN pc' = "dead" /\ cur' = NoTask
       ELSE /\ cur' = t
            /\ pc' = Dispatch(jobs[t.id].status, t.path)
    /\ run' = NoRun
    /\ UNCHANGED <<jobs, disk, files, worker_threads, stopping, restarts,
                   callers, second, lockvars>>

\* mutant of TranscribeStart: the run starts with the status not yet stored
TranscribeStartUnsaved ==
    /\ pc = "set_running"
    /\ pc' = "rw_init"
    /\ UNCHANGED <<jobs, disk, files, task_queue, worker_threads, stopping,
                   cur, run, restarts, callers, second, lockvars>>

\* _task_transcribe lines 185-199: the clock is read (not before any
\* reading stored in the record) and status RUNNING is saved with it before
\* the run
TranscribeStart ==
    /\ pc = "set_running"
    /\ \E now \in Stamps :
          /\ now >= jobs[cur.id].started_ts
          /\ now >= jobs[cur.id].completed_ts
          /\ SetJob(cur.id, [status |-> RUNNING, started_ts |-> now])
          /\ run' = [run EXCEPT !.started = now]
    /\ pc' = "rw_init"
    /\ UNCHANGED <<files, task_queue, worker_threads, stopping, cur, restarts,
                   callers, second, lockvars>>

\* _run_whisper lines 103-121: progress reset, Popen, timer start
RunWhisperStart ==
    /\ pc = "rw_init"
    /\ SetJob(cur.id, [phase |-> PHASE_PRE, progress_percent |-> 0])
    /\ run' = [run EXCEPT !.proc = "running", !.timer = "armed"]
    /\ pc' = "rw_read"
    /\ UNCHANGED <<files, task_queue, worker_threads, stopping, cur, restarts,
                   callers, second, lockvars>>

\* ---- Python float arithmetic (IEEE 754 binary64, round to nearest even)
\* A positive float is [m |-> its 53-bit significand as limbs, the leading
\* bit first and then MantissaLimbs limbs of LimbBits bits, e |-> the
\* exponent of the leading bit].
LimbBits == 13
MantissaLimbs == 4
Limb == 2^LimbBits

\* significand + 1, the carry running up from the last limb
RECURSIVE AddOne(_)
AddOne(m) ==
    IF Len(m) = 1 THEN <<m[1] + 1>>
    ELSE IF m[Len(m)] + 1 < Limb
         THEN SubSeq(m, 1, Len(m) - 1) \o <<m[Len(m)] + 1>>
         ELSE AddOne(SubSeq(m, 1, Len(m) - 1)) \o <<0>>

\* round to nearest, ties to even, given whether what was cut off is above
\* or exactly at half a unit in the last place
RoundFloat(m, e, above, half) ==
    LET up == above \/ (half /\ m[Len(m)] % 2 = 1)
        inc == AddOne(m)
    IN IF ~up THEN [m |-> m, e |-> e]
       ELSE IF inc[1] = 2
            THEN [m |-> <<1>> \o SubSeq(inc, 2, Len(inc)), e |-> e + 1]
            ELSE [m |-> inc, e |-> e]

\* scale a / b into [1, 2): a / b = (n.a / n.b) * 2^n.e
RECURSIVE Normalize(_, _, _)
Normalize(a, b, e) ==
    IF a < b THEN Normalize(2 * a, b, e - 1)
    ELSE IF a >= 2 * b THEN Normalize(a, 2 * b, e + 1)
    ELSE [a |-> a, b |-> b, e |-> e]

\* long division, one limb of the quotient at a time
RECURSIVE DivLimbs(_, _, _)
DivLimbs(r, b, m) ==
    IF Len(m) = MantissaLimbs + 1 THEN [m |-> m, rem |-> r]
    ELSE DivLimbs((r * Limb) % b, b, Append(m, (r * Limb) \div b))

\* the float a / b for integers a > 0, b > 0 (both exact as floats)
FloatDiv(a, b) ==
    LET n == Normalize(a, b, 0)
        d == DivLimbs(n.a % n.b, n.b, <<n.a \div n.b>>)
    IN RoundFloat(d.m, n.e, 2 * d.rem > n.b, 2 * d.rem = n.b)

\* significand * c for a small integer c, exact: the first limb of the
\* product holds the leading bits
RECURSIVE MulLimbs(_, _, _, _)
MulLimbs(m, c, carry, acc) ==
    IF Len(m) = 1 THEN <<m[1] * c + carry>> \o acc
    ELSE LET v == m[Len(m)] * c + carry
         IN MulLimbs(SubSeq(m, 1, Len(m) - 1), c, v \div Limb,
                     <<v % Limb>> \o acc)

RECURSIVE BitLen(_)
BitLen(h) == IF h < 2 THEN 1 ELSE 1 + BitLen(h \div 2)

\* shift the limbs right by s bits; rem is what falls off the end
RECURSIVE ShiftLimbs(_, _, _, _)
ShiftLimbs(p, s, carry, acc) ==
    IF p = <<>> THEN [m |-> acc, rem |-> carry]
    ELSE LET t == (IF acc = <<>> THEN 0 ELSE carry * Limb) + p[1]
         IN ShiftLimbs(Tail(p), s, t % 2^s, Append(acc, t \div 2^s))

\* the float x * c for a float x and a small integer c >= 2
FloatMul(x, c) ==
    LET p == MulLimbs(x.m, c, 0, <<>>)
        s == BitLen(p[1]) - 1
        sh == ShiftLimbs(p, s, 0, <<>>)
    IN RoundFloat(sh.m, x.e + s, sh.rem > 2^(s - 1), sh.rem = 2^(s - 1))

\* int(x) for a positive float below 2^(LimbBits + 1): the integer part
FloatToInt(x) ==
    IF x.e < 0 THEN 0
    ELSE (x.m[1] * Limb + x.m[2]) \div 2^(LimbBits - x.e)

\* line 138: int((start_sec / total_sec) * 100) if total_sec else 0, with
\* start_sec a float holding whole seconds and total_sec an int
Percent(start_sec, total_sec) ==
    IF total_sec = NoDuration \/ start_sec = 0 THEN 0
    ELSE FloatToInt(FloatMul(FloatDiv(start_sec, total_sec), 100))

\* lines 139-140: never below the highest percent seen in this run
Clamp(percent, max_percent) ==
    IF percent < max_percent THEN max_percent ELSE percent

Max(a, b) == IF a > b THEN a ELSE b

\* lines 123-154, a matched timeline line starting at start_sec
ReadTimeline(start_sec) ==
    /\ pc = "rw_read"
    /\ run.nread < MaxLines
    /\ LET total_sec == jobs[cur.id].media_duration_seconds
           percent == Clamp(Percent(start_sec, total_sec), run.max_percent)
       IN IF percent # run.last_percent
          THEN /\ SetJob(cur.id, [phase |-> PHASE_TRANSCRIBING,
                                  progress_percent |-> percent])
               /\ run' = [run EXCEPT !.last_percent = percent,
                                     !.max_percent = Max(run.max_percent, percent),
                                     !.saw_timeline = TRUE,
                                     !.nread = @ + 1]
          ELSE /\ UNCHANGED <<jobs, disk>>
               /\ run' = [run EXCEPT !.saw_timeline = TRUE, !.nread = @ + 1]
    /\ pc' = IF run.flag THEN "rw_wait" ELSE "rw_read"
    /\ UNCHANGED <<files, task_queue, worker_threads, stopping, cur, restarts,
                   callers, second, lockvars>>

\* lines 123-154, a line without a timeline: only the timed_out test
ReadOther ==
    /\ pc = "rw_read"
    /\ run.nread < MaxLines
    /\ run' = [run EXCEPT !.nread = @ + 1]
    /\ pc' = IF run.flag THEN "rw_wait" ELSE "rw_read"
    /\ UNCHANGED <<jobs, disk, files, task_queue, worker_threads, stopping,
                   cur, restarts,
                   callers, second, lockvars>>

\* line 123: the stream ends once the process is gone
ReadEof ==
    /\ pc = "rw_read"
    /\ run.proc # "running"
    /\ pc' = "rw_wait"
    /\ UNCHANGED <<jobs, disk, files, task_queue, worker_threads, stopping,
                   cur, run, restarts,
                   callers, second, lockvars>>

\* the transcription process ends on its own with exit code 0 or 1
ProcExit(code) ==
    /\ pc = "rw_read"
    /\ run.proc = "running"
    /\ run' = [run EXCEPT !.proc = IF code = 0 THEN "exit0" ELSE "exit1"]
    /\ UNCHANGED <<jobs, disk, files, task_queue, worker_threads, stopping,
                   pc, cur, restarts,
                   callers, second, lockvars>>

\* _kill_timeout lines 112-115, on the timer thread: proc.kill()
TimerKill ==
    /\ pc \in {"rw_read", "rw_wait"}
    /\ run.timer = "armed"
    /\ run' = [run EXCEPT !.timer = "killing",
                          !.proc = IF @ = "running" THEN "killed" ELSE @]
    /\ UNCHANGED <<jobs, disk, files, task_queue, worker_threads, stopping,
                   pc, cur, restarts,
                   callers, second, lockvars>>

\* _kill_timeout line 116: timed_out['flag'] = True
TimerFlag ==
    /\ pc \in {"rw_read", "rw_wait", "rw_check"}
    /\ run.timer = "killing"
    /\ run' = [run EXCEPT !.timer = "fired", !.flag = TRUE]
    /\ UNCHANGED <<jobs, disk, files, task_queue, worker_threads, stopping,
                   pc, cur, restarts,
                   callers, second, lockvars>>


\* line 156: the return code proc.wait() gives for a process that is gone
ReturnCode(proc) ==
    IF proc = "exit0" THEN 0 ELSE IF proc = "exit1" THEN 1 ELSE 0 - 9

\* lines 155-163: proc.wait(timeout=1), then timer.cancel(), which stops
\* only a timer whose function has not started
WaitProc ==
    /\ pc = "rw_wait"
    /\ run' = [run EXCEPT !.timer = IF @ = "armed" THEN "cancelled" ELSE @]
    /\ pc' = "rw_check"
    /\ UNCHANGED <<jobs, disk, files, task_queue, worker_threads, stopping,
                   cur, restarts,
                   callers, second, lockvars>>

\* lines 164-167: the exception a non-zero return code raises
RunError(return_code, flag) ==
    IF return_code = 0 THEN None
    ELSE IF flag THEN "TimeoutError" ELSE "RuntimeError"

\* mutant of FinishedFields: 100 is stored whether or not a line was seen
FinishedFieldsAlways100(saw_timeline) ==
    [phase |-> PHASE_FINISHED, progress_percent |-> 100]

\* lines 168-174: the end-of-stream update of a successful run
FinishedFields(saw_timeline) ==
    IF saw_timeline
    THEN [phase |-> PHASE_FINISHED, progress_percent |-> 100]
    ELSE [phase |-> PHASE_FINISHED]

\* lines 164-182: raise on a non-zero return code, else mark the run finished
\* and read (then remove) the process's output file
CheckReturn ==
    /\ pc = "rw_check"
    /\ LET e == RunError(ReturnCode(run.proc), run.flag) IN
       IF e # None
       THEN /\ run' = [run EXCEPT !.exc = e]
            /\ pc' = "tt_fail"
            /\ UNCHANGED <<jobs, disk>>
       ELSE /\ SetJob(cur.id, FinishedFields(run.saw_timeline))
            /\ pc' = "tt_write"
            /\ UNCHANGED run
    /\ UNCHANGED <<files, task_queue, worker_threads, stopping, cur, restarts,
                   callers, second, lockvars>>

\* mutant of FailedFields: the timeout detail is written for every exception
FailedFieldsAlwaysDetail(e) ==
    [status |-> FAILED, status_detail |-> TIMEOUT_DETAIL]

\* _task_transcribe lines 204-209: the fields written when the run raised
FailedFields(e) ==
    IF e = "TimeoutError"
    THEN [status |-> FAILED, status_detail |-> TIMEOUT_DETAIL]
    ELSE [status |-> FAILED]

\* _task_transcribe lines 202-216 and worker_loop 303-305: mark the job
\* failed, re-raise; the worker logs and goes on to the next task
TranscribeFailed ==
    /\ pc = "tt_fail"
    /\ SetJob(cur.id, FailedFields(run.exc))
    /\ pc' = "finally"
    /\ UNCHANGED <<files, task_queue, worker_threads, stopping, cur, run,
                   restarts,
                   callers, second, lockvars>>

\* _task_transcribe lines 217-219: write the transcript to RESULT_FOLDER;
\* an OSError here is caught only by worker_loop line 303
WriteTranscript(ok) ==
    /\ pc = "tt_write"
    /\ IF ok
       THEN /\ results' = results \cup {cur.id}
            /\ pc' = "tt_done"
            /\ UNCHANGED run
       ELSE /\ run' = [run EXCEPT !.exc = "OSError"]
            /\ pc' = "finally"
            /\ UNCHANGED results
    /\ UNCHANGED <<jobs, disk, uploads, refinedFiles, task_queue,
                   worker_threads, stopping, cur, restarts,
                   callers, second, lockvars>>

\* _task_transcribe lines 220-237
TranscribeDone ==
    /\ pc = "tt_done"
    /\ \E now \in Stamps :
          /\ now >= run.started
          /\ SetJob(cur.id, [status |-> REFINING_PENDING,
                             completed_ts |-> now,
                             duration |-> format_seconds(now - run.started)])
    /\ pc' = "set_refining"
    /\ UNCHANGED <<files, task_queue, worker_threads, stopping, cur, run,
                   restarts,
                   callers, second, lockvars>>

\* worker_loop 286-287 / 311-312 and _task_refining line 240
RefiningStart ==
    /\ pc = "set_refining"
    /\ SetJob(cur.id, [status |-> REFINING])
    /\ pc' = "refine_call"
    /\ UNCHANGED <<files, task_queue, worker_threads, stopping, cur, run,
                   restarts,
                   callers, second, lockvars>>

\* how the refinement call can end: no credential (init_once is None),
\* refined text, empty text, a raised error, rate-limit retries exhausted
RefineOutcomes == {"nocred", "text", "empty", "error", "ratelimited"}

\* mutant of HasRefinedText: an empty text is written too
HasRefinedTextOrEmpty(outcome) == outcome \in {"text", "empty"}

\* line 248: only a non-empty text is written
HasRefinedText(outcome) == outcome = "text"

\* mutant of AfterRefine: an exception of the call escapes _task_refining
\* and is handled like a failed run
AfterRefineUncaught(outcome) ==
    IF outcome \in {"error", "ratelimited"} THEN "tt_fail"
    ELSE IF outcome = "text" THEN "ref_write" ELSE "set_completed"

\* _task_refining lines 241-262: where the stage goes after the call; every
\* exception is caught by line 261, logged and dropped
AfterRefine(outcome) ==
    IF HasRefinedText(outcome) THEN "ref_write" ELSE "set_completed"

\* gemini_service.refine_transcript lines 89-90
max_retries == 3
base_delay == 5

\* what one client.models.generate_content call can do: answer with a text,
\* answer with no text, raise a rate-limit error, raise another error
Responses == {"text", "empty", "rate_limit", "other_error"}

\* mutant of IsRateLimit: every error is taken for a rate limit
IsRateLimitAnyError(resp) == resp \in {"rate_limit", "other_error"}

\* line 108: "429", "ResourceExhausted" or "Quota exceeded" in the message
IsRateLimit(resp) == resp = "rate_limit"

\* mutant of ShouldRetry: a single retry
ShouldRetryOnce(attempt) == attempt < 1

\* line 113: another attempt is left
ShouldRetry(attempt) == attempt < max_retries - 1

\* mutant of WaitTime: the same delay before every retry
WaitTimeFixed(attempt) == base_delay

\* line 114: wait_time = base_delay * (2 ** attempt)
WaitTime(attempt) == base_delay * 2^attempt

\* _task_refining line 242 and refine_transcript lines 66-68: without a
\* client the stage is skipped
RefineStart(configured) ==
    /\ pc = "refine_call"
    /\ IF configured
       THEN /\ pc' = "refine_attempt"
            /\ UNCHANGED run
       ELSE /\ run' = [run EXCEPT !.refine = "nocred"]
            /\ pc' = AfterRefine("nocred")
    /\ UNCHANGED <<jobs, disk, files, task_queue, worker_threads, stopping,
                   cur, restarts,
                   callers, second, lockvars>>

\* refine_transcript lines 92-120, one pass of the loop: the call numbered
\* attempt (from 0) gets response resp; resps and waits record the responses
\* got and the time.sleep calls made so far in this refine_transcript call
RefineCall(resp) ==
    /\ pc = "refine_attempt"
    /\ LET attempt == Len(run.resps)
           got == [run EXCEPT !.resps = Append(@, resp)]
       IN IF resp \in {"text", "empty"}
          THEN /\ run' = [got EXCEPT !.refine = resp]
               /\ pc' = AfterRefine(resp)
          ELSE IF IsRateLimit(resp) /\ ShouldRetry(attempt)
          THEN /\ run' = [got EXCEPT !.waits = Append(@, WaitTime(attempt))]
               /\ pc' = "refine_attempt"
          ELSE LET outcome == IF IsRateLimit(resp) THEN "ratelimited"
                              ELSE "error"
               IN /\ run' = [got EXCEPT !.refine = outcome]
                  /\ pc' = AfterRefine(outcome)
    /\ UNCHANGED <<jobs, disk, files, task_queue, worker_threads, stopping,
                   cur, restarts,
                   callers, second, lockvars>>

\* _task_refining lines 249-251: the write may raise inside the try
WriteRefined(ok) ==
    /\ pc = "ref_write"
    /\ IF ok
       THEN /\ refinedFiles' = refinedFiles \cup {cur.id}
            /\ pc' = "ref_record"
            /\ UNCHANGED run
       ELSE /\ run' = [run EXCEPT !.refine = "writefail"]
            /\ pc' = "set_completed"
            /\ UNCHANGED refinedFiles
    /\ UNCHANGED <<jobs, disk, uploads, results, task_queue, worker_threads,
                   stopping, cur, restarts,
                   callers, second, lockvars>>

\* _task_refining lines 252-255
RecordRefined ==
    /\ pc = "ref_record"
    /\ SetJob(cur.id, [result_refined |-> RefinedPath])
    /\ pc' = "set_completed"
    /\ UNCHANGED <<files, task_queue, worker_threads, stopping, cur, run,
                   restarts,
                   callers, second, lockvars>>

\* line 292 (refinement-only task) and line 317 (task with an input path)
CompletedFields(path) ==
    IF path = EmptyPath
    THEN [status |-> COMPLETED]
    ELSE [status |-> COMPLETED, result |-> TxtPath]

SetCompleted ==
    /\ pc = "set_completed"
    /\ SetJob(cur.id, CompletedFields(cur.path))
    /\ pc' = IF cur.path = EmptyPath THEN "finally" ELSE "remove"
    /\ UNCHANGED <<files, task_queue, worker_threads, stopping, cur, run,
                   restarts,
                   callers, second, lockvars>>

\* lines 318-323: _remove_file(filepath)
RemoveInput ==
    /\ pc = "remove"
    /\ uploads' = uploads \ {cur.id}
    /\ pc' = "finally"
    /\ UNCHANGED <<jobs, disk, results, refinedFiles, task_queue,
                   worker_threads, stopping, cur, run, restarts,
                   callers, second, lockvars>>

\* mutant of TaskDone: the finally block removes the input file of the task
TaskDoneRemovingInput ==
    /\ pc = "finally"
    /\ pc' = "get"
    /\ cur' = NoTask
    /\ run' = NoRun
    /\ uploads' = uploads \ {cur.id}
    /\ UNCHANGED <<jobs, disk, results, refinedFiles, task_queue,
                   worker_threads, stopping, restarts, callers, second, lockvars>>

\* lines 324-333: task_done, back to task_queue.get()
TaskDone ==
    /\ pc = "finally"
    /\ pc' = "get"
    /\ cur' = NoTask
    /\ run' = NoRun
    /\ UNCHANGED <<jobs, disk, files, task_queue, worker_threads, stopping,
                   restarts,
                   callers, second, lockvars>>

\* --------------------------------------------------------------- recovery
\* requeue_pending lines 354-363: jobs.items() in insertion order; a job in
\* status pending or running whose wav is in UPLOAD_FOLDER gives one task
RECURSIVE ToEnqueue(_, _, _)
ToEnqueue(t, ups, j) ==
    IF j > MaxJobs THEN <<>>
    ELSE (IF j \in DOMAIN t /\ t[j].status \in {PENDING, RUNNING} /\ j \in ups
          THEN <<Task(j, WavPath)>> ELSE <<>>) \o ToEnqueue(t, ups, j + 1)

\* mutant of requeue_pending: a task for every pending or running job,
\* whether its wav is found or not
requeue_pending_any_file(t, ups) == ToEnqueue(t, DOMAIN t, 1)

\* requeue_pending lines 364-366 on the queue of a fresh process
requeue_pending(t, ups) == ToEnqueue(t, ups, 1)

\* mutant of RecoveredTable: a pending or running job whose wav is not found
\* is marked failed
RecoveredTableFailingStranded(t, ups) ==
    [j \in DOMAIN t |->
        IF t[j].status \in {PENDING, RUNNING} /\ j \notin ups
        THEN [t[j] EXCEPT !.status = FAILED] ELSE t[j]]

\* requeue_pending lines 352-368: the table it leaves. It only reads
\* jobs.items() under the lock: no _set_job, no assignment to a record.
RecoveredTable(t, ups) == t

\* the wav of a job disappears from UPLOAD_FOLDER (removed from outside the
\* program): what the scan of lines 357-361 then does not find
LoseUpload(j) ==
    /\ j \in uploads
    /\ uploads' = uploads \ {j}
    /\ UNCHANGED <<jobs, disk, results, refinedFiles, task_queue,
                   worker_threads, stopping, pc, cur, run, restarts,
                   callers, second, lockvars>>

\* The process dies (at any point) and is started again: the module is
\* imported (jobs = load_jobs(), an empty queue, no worker thread) and
\* lifespan runs requeue_pending. Files stay as they were.
Restart ==
    /\ restarts < MaxRestarts
    /\ restarts' = restarts + 1
    /\ jobs' = RecoveredTable(load_jobs(disk), uploads)
    /\ task_queue' = requeue_pending(jobs', uploads)
    /\ worker_threads' = 0
    /\ stopping' = FALSE
    /\ pc' = "none"
    /\ cur' = NoTask
    /\ run' = NoRun
    /\ callers' = NoCallers
    /\ second' = NoSecond
    /\ UNCHANGED <<disk, files, lockvars>>

\* shutdown_workers lines 374-378 return, with every thread joined or with
\* t.join(timeout=5) expired, lifespan ends and the interpreter exits. The
\* worker is a daemon thread (line 347): it ends with the process, wherever
\* it is, and the queue is gone.
ServerExit ==
    /\ stopping
    /\ pc # "none" \/ task_queue # <<>>
    /\ pc' = "none"
    /\ cur' = NoTask
    /\ run' = NoRun
    /\ task_queue' = <<>>
    /\ worker_threads' = 0
    /\ UNCHANGED <<jobs, disk, files, stopping, restarts, callers, second, lockvars>>

\* ------------------------------------------- concurrent start_worker calls
\* start_worker line 345 in the thread of caller c: the test of
\* worker_threads, which no lock protects
StartCheck(c) ==
    /\ ~stopping
    /\ callers[c] = "idle"
    /\ callers' = [callers EXCEPT ![c] = IF worker_threads > 0
                                         THEN "returned" ELSE "checked"]
    /\ UNCHANGED <<jobs, disk, files, task_queue, worker_threads, stopping,
                   pc, cur, run, restarts, second, lockvars>>

\* start_worker lines 347-349 in the thread of caller c: the thread is
\* started and appended. The first thread started is the worker of pc, cur
\* and run; one started while that worker exists is the second worker.
StartThread(c) ==
    /\ callers[c] = "checked"
    /\ callers' = [callers EXCEPT ![c] = "returned"]
    /\ worker_threads' = worker_threads + 1
    /\ IF pc = "none"
       THEN pc' = "get" /\ UNCHANGED second
       ELSE second' = [second EXCEPT !.pc = "get"] /\ UNCHANGED pc
    /\ UNCHANGED <<jobs, disk, files, task_queue, stopping, cur, run,
                   restarts, lockvars>>

\* worker_loop in the second worker thread, in larger steps.
\* lines 266-308: task_queue.get(), the sentinel test, the status read
SecondDequeue ==
    /\ second.pc = "get"
    /\ task_queue # <<>>
    /\ task_queue' = Tail(task_queue)
    /\ LET t == Head(task_queue) IN
       IF t = Sentinel
       THEN second' = [NoSecond EXCEPT !.pc = "stopped"]
       ELSE IF t.id \notin DOMAIN jobs
       THEN second' = [NoSecond EXCEPT !.pc = "dead"]
       ELSE LET d == Dispatch(jobs[t.id].status, t.path) IN
            IF d = "finally" THEN UNCHANGED second
            ELSE second' = [NoSecond EXCEPT !.pc = d, !.cur = t]
    /\ UNCHANGED <<jobs, disk, files, worker_threads, stopping, pc, cur, run,
                   restarts, callers,
                   lockvars>>

\* _task_transcribe line 194 and _run_whisper lines 103-121: status running,
\* progress reset, Popen
SecondTranscribeStart ==
    /\ second.pc = "set_running"
    /\ \E now \in Stamps :
          /\ now >= jobs[second.cur.id].started_ts
          /\ now >= jobs[second.cur.id].completed_ts
          /\ SetJob(second.cur.id, [status |-> RUNNING, started_ts |-> now,
                                    phase |-> PHASE_PRE,
                                    progress_percent |-> 0])
          /\ second' = [second EXCEPT !.pc = "transcribing",
                                      !.started = now]
    /\ UNCHANGED <<files, task_queue, worker_threads, stopping, pc, cur, run,
                   restarts, callers,
                   lockvars>>

\* _run_whisper lines 122-178 and _task_transcribe lines 200-237: the
\* process ends; exit 0 and the transcript written give refining_pending,
\* a failed run gives failed
SecondTranscribeEnd(ok) ==
    /\ second.pc = "transcribing"
    /\ IF ok
       THEN /\ results' = results \cup {second.cur.id}
            /\ \E now \in Stamps :
                  /\ now >= second.started
                  /\ SetJob(second.cur.id,
                            [status |-> REFINING_PENDING,
                             phase |-> PHASE_FINISHED,
                             completed_ts |-> now,
                             duration |-> format_seconds(now - second.started)])
            /\ second' = [second EXCEPT !.pc = "set_refining"]
       ELSE /\ SetJob(second.cur.id, [status |-> FAILED])
            /\ second' = [NoSecond EXCEPT !.pc = "get"]
            /\ UNCHANGED results
    /\ UNCHANGED <<uploads, refinedFiles, task_queue, worker_threads,
                   stopping, pc, cur, run, restarts, callers,
                   lockvars>>

\* _task_refining line 240: status refining, then the refinement call
SecondRefiningStart ==
    /\ second.pc = "set_refining"
    /\ SetJob(second.cur.id, [status |-> REFINING])
    /\ second' = [second EXCEPT !.pc = "refining"]
    /\ UNCHANGED <<files, task_queue, worker_threads, stopping, pc, cur, run,
                   restarts, callers,
                   lockvars>>

\* _task_refining lines 241-262 and worker_loop lines 292 / 317-323: the
\* call returns, with a refined text written and recorded or without;
\* completed is stored and the input file of a task with a path is removed
SecondRefiningEnd(refined) ==
    /\ second.pc = "refining"
    /\ LET j == second.cur.id
           t == IF refined
                THEN SetFields(jobs, j, [result_refined |-> RefinedPath])
                ELSE jobs
       IN /\ jobs' = SetFields(t, j, CompletedFields(second.cur.path))
          /\ disk' = save_jobs(jobs')
          /\ refinedFiles' = IF refined THEN refinedFiles \cup {j}
                             ELSE refinedFiles
          /\ uploads' = IF second.cur.path = EmptyPath THEN uploads
                        ELSE uploads \ {j}
    /\ second' = [NoSecond EXCEPT !.pc = "get"]
    /\ UNCHANGED <<results, task_queue, worker_threads, stopping, pc, cur,
                   run, restarts, callers,
                   lockvars>>

SecondStep ==
    \/ SecondDequeue
    \/ SecondTranscribeStart
    \/ \E ok \in BOOLEAN : SecondTranscribeEnd(ok)
    \/ SecondRefiningStart
    \/ \E refined \in BOOLEAN : SecondRefiningEnd(refined)

\* ------------------------------------------------------------------- spec
WorkerStep ==
    \/ Dequeue
    \/ TranscribeStart
    \/ RunWhisperStart
    \/ \E s \in Times : ReadTimeline(s)
    \/ ReadOther
    \/ ReadEof
    \/ WaitProc
    \/ CheckReturn
    \/ TranscribeFailed
    \/ \E ok \in BOOLEAN : WriteTranscript(ok)
    \/ TranscribeDone
    \/ RefiningStart
    \/ \E configured \in BOOLEAN : RefineStart(configured)
    \/ \E resp \in Responses : RefineCall(resp)
    \/ \E ok \in BOOLEAN : WriteRefined(ok)
    \/ RecordRefined
    \/ SetCompleted
    \/ RemoveInput
    \/ TaskDone

Next ==
    \/ \E j \in JobIds, d \in Durations : upload_file(j, d)
    \/ \E j \in JobIds, p \in {WavPath, EmptyPath} : EnqueueStt(j, p)
    \/ start_worker
    \/ shutdown_workers
    \/ WorkerStep
    \/ \E c \in {0, 1} : ProcExit(c)
    \/ TimerKill
    \/ TimerFlag
    \/ Restart
    \/ ServerExit

Spec == Init /\ [][Next]_vars


\* The worker keeps running: no restart, no shutdown, and the producers are
\* the ones of app.py (upload_file; requeue_pending at startup). The worker
\* thread is started and scheduled, and the timer thread runs its function
\* once the timeout has passed.
LiveNext ==
    \/ \E j \in JobIds, d \in Durations : upload_file(j, d)
    \/ start_worker
    \/ WorkerStep
    \/ \E c \in {0, 1} : ProcExit(c)
    \/ TimerKill
    \/ TimerFlag

Fairness ==
    /\ WF_vars(start_worker)
    /\ WF_vars(WorkerStep)
    /\ WF_vars(TimerKill)
    /\ WF_vars(TimerFlag)

LiveSpec == Init /\ [][LiveNext]_vars /\ Fairness

\* The same with process restarts.
RecoveryNext == LiveNext \/ Restart

RecoverySpec == Init /\ [][RecoveryNext]_vars /\ Fairness

\* Startup recovery over every table and upload directory it can find: the
\* same steps, and the wav of a job may have been removed from outside.
StartupNext ==
    \/ RecoveryNext
    \/ \E j \in JobIds : LoseUpload(j)

StartupSpec == Init /\ [][StartupNext]_vars


\* The running pipeline with shutdown and with enqueue_stt called for any
\* id, known to the table or not.
EnqueueNext ==
    \/ LiveNext
    \/ shutdown_workers
    \/ \E p \in {WavPath, EmptyPath} : EnqueueUnknown(p)

EnqueueSpec == Init /\ [][EnqueueNext]_vars
\* start_worker called from two threads at once: each call is its test and
\* then its thread start, and every thread started runs worker_loop on the
\* one task_queue. The producers are upload_file and a duplicate of a
\* job's transcription task; the timeout timer does not fire.
RaceNext ==
    \/ \E j \in JobIds, d \in Durations : upload_file(j, d)
    \/ \E j \in JobIds : EnqueueStt(j, WavPath)
    \/ \E c \in Callers : StartCheck(c)
    \/ \E c \in Callers : StartThread(c)
    \/ WorkerStep
    \/ \E c \in {0, 1} : ProcExit(c)
    \/ SecondStep

RaceSpec == Init /\ [][RaceNext]_vars

\* One transcription run in progress, for every media duration up to
\* MaxTotal: the state RunWhisperStart leaves for an uploaded job, from where
\* the worker reads timeline lines with start times up to MaxStart.
ProgressInit ==
    /\ \E d \in 0..MaxTotal :
          jobs = (1 :> [NewJob(d) EXCEPT !.status = RUNNING,
                                        !.started_ts = 1,
                                        !.phase = PHASE_PRE,
                                        !.progress_percent = 0])
    /\ disk = save_jobs(jobs)
    /\ uploads = {1}
    /\ results = {}
    /\ refinedFiles = {}
    /\ task_queue = <<>>
    /\ worker_threads = 1
    /\ stopping = FALSE
    /\ pc = "rw_read"
    /\ cur = Task(1, WavPath)
    /\ run = [NoRun EXCEPT !.proc = "running", !.timer = "armed",
                           !.started = 1]
    /\ restarts = 0
    /\ callers = NoCallers
    /\ second = NoSecond
    /\ jobs_lock = "free"
    /\ prom_init_done = FALSE
    /\ thr = NoThreads

ProgressNext == \E s \in 0..MaxStart : ReadTimeline(s)

ProgressSpec == ProgressInit /\ [][ProgressNext]_vars

\* ------------------------------------------------------------ persistence
\* save_jobs step by step, with a process crash possible between any two
\* steps, and load_jobs at the next start. The variables used are jobs (the
\* table handed to save_jobs), disk, pc and restarts.
AllStatuses == ActiveStatuses \cup {COMPLETED, FAILED}

\* the tables a caller can hand to save_jobs
Tables ==
    UNION {[S -> {[NewJob(NoDuration) EXCEPT !.status = st] : st \in AllStatuses}]
           : S \in SUBSET JobIds}

SavePcs == {"save_mkstemp", "save_write", "save_flush", "save_lock",
            "save_replace", "save_cleanup"}

\* before the first start: no job file, or one that cannot be parsed
PersistInit ==
    /\ jobs = EmptyTable
    /\ \/ disk = NoFile
       \/ \E t \in Tables : disk = [state |-> "corrupt", table |-> Dumps(t),
                                     tmp |-> "none"]
    /\ uploads = {}
    /\ results = {}
    /\ refinedFiles = {}
    /\ task_queue = <<>>
    /\ worker_threads = 0
    /\ stopping = FALSE
    /\ pc = "down"
    /\ cur = NoTask
    /\ run = NoRun
    /\ restarts = 0
    /\ callers = NoCallers
    /\ second = NoSecond
    /\ jobs_lock = "free"
    /\ prom_init_done = FALSE
    /\ thr = NoThreads

PersistUnchanged ==
    UNCHANGED <<files, task_queue, worker_threads, stopping, cur, run,
                callers, second, lockvars>>

\* whisper_worker.py line 33, at import: jobs = _load_jobs()
LoadAtImport ==
    /\ pc = "down"
    /\ jobs' = load_jobs(disk)
    /\ pc' = "idle"
    /\ UNCHANGED <<disk, restarts,
                   callers, second, lockvars>>
    /\ PersistUnchanged

\* a caller hands table t to save_jobs
SaveCall(t) ==
    /\ pc \in {"idle", "saved"}
    /\ jobs' = t
    /\ pc' = "save_mkstemp"
    /\ UNCHANGED <<disk, restarts,
                   callers, second, lockvars>>
    /\ PersistUnchanged

\* line 29: tempfile.mkstemp in the directory of the job file
SaveMkstemp ==
    /\ pc = "save_mkstemp"
    /\ disk' = [disk EXCEPT !.tmp = "empty"]
    /\ pc' = "save_write"
    /\ UNCHANGED <<jobs, restarts,
                   callers, second, lockvars>>
    /\ PersistUnchanged

\* lines 31-32: tf.write(data); part of the text may be in the file
SaveWrite ==
    /\ pc = "save_write"
    /\ disk' = [disk EXCEPT !.tmp = "partial"]
    /\ pc' = "save_flush"
    /\ UNCHANGED <<jobs, restarts,
                   callers, second, lockvars>>
    /\ PersistUnchanged

\* lines 33-34: flush and fsync, the temp file is complete
SaveFlush ==
    /\ pc = "save_flush"
    /\ disk' = [disk EXCEPT !.tmp = "full"]
    /\ pc' = "save_lock"
    /\ UNCHANGED <<jobs, restarts,
                   callers, second, lockvars>>
    /\ PersistUnchanged

\* mutant of LockOpen: the lock file is opened for writing
LockOpenTruncating(d) == [d EXCEPT !.state = "empty", !.table = EmptyTable]

\* line 38: open(JOBS_PATH, 'a+') creates the job file when it is missing
\* and leaves an existing one as it is
LockOpen(d) ==
    IF d.state = "missing" THEN [d EXCEPT !.state = "empty"] ELSE d

\* lines 36-42: with portalocker the job file is opened and locked
SaveLock(portalocker) ==
    /\ pc = "save_lock"
    /\ disk' = IF portalocker THEN LockOpen(disk) ELSE disk
    /\ pc' = "save_replace"
    /\ UNCHANGED <<jobs, restarts,
                   callers, second, lockvars>>
    /\ PersistUnchanged

\* lines 44 / 52: os.replace(tmp_path, JOBS_PATH)
SaveReplace ==
    /\ pc = "save_replace"
    /\ disk' = save_jobs(jobs)
    /\ pc' = "save_cleanup"
    /\ UNCHANGED <<jobs, restarts,
                   callers, second, lockvars>>
    /\ PersistUnchanged

\* lines 45-61: unlock, the temp file is gone, save_jobs returns
SaveCleanup ==
    /\ pc = "save_cleanup"
    /\ pc' = "saved"
    /\ UNCHANGED <<jobs, disk, restarts,
                   callers, second, lockvars>>
    /\ PersistUnchanged

\* the process dies; the files stay as they are, the memory is lost
PersistCrash ==
    /\ pc # "down"
    /\ restarts < MaxRestarts
    /\ restarts' = restarts + 1
    /\ jobs' = EmptyTable
    /\ pc' = "down"
    /\ UNCHANGED disk
    /\ PersistUnchanged

PersistNext ==
    \/ LoadAtImport
    \/ \E t \in Tables : SaveCall(t)
    \/ SaveMkstemp
    \/ SaveWrite
    \/ SaveFlush
    \/ \E portalocker \in BOOLEAN : SaveLock(portalocker)
    \/ SaveReplace
    \/ SaveCleanup
    \/ PersistCrash

PersistSpec == PersistInit /\ [][PersistNext]_vars

\* lines 50-61 without portalocker: os.replace raises, the exception is
\* dropped (lines 53-55, "best-effort"), the temp file is removed and
\* save_jobs returns as after a save: the job file stays as it was. (A job
\* file of zero length at this point was created by the portalocker branch.)
SaveReplaceSwallowed ==
    /\ pc = "save_replace"
    /\ disk.state # "empty"
    /\ disk' = [disk EXCEPT !.tmp = "none"]
    /\ pc' = "saved"
    /\ UNCHANGED <<jobs, restarts, callers, second, lockvars>>
    /\ PersistUnchanged

\* Saves whose os.replace can fail.
SaveFailNext ==
    \/ PersistNext
    \/ SaveReplaceSwallowed

SaveFailSpec == PersistInit /\ [][SaveFailNext]_vars

\* ------------------------------------------------------------ jobs_lock
\* Every thread is followed through the steps it takes relative to jobs_lock:
\* entering and leaving `with jobs_lock`, the work done inside and outside
\* it, and the external calls. What a critical section writes into the table
\* is the subject of the actions above; here only the order of the steps and
\* the holder of the lock are kept. thr[t].prog is what thread t has still
\* to do, thr[t].ext says that it is inside an external call, thr[t].puts
\* are the tasks it has still to enqueue.
MaxRequests == 2    \* requests served by each handler thread

\* work that stays in the process: reading or changing the table and saving
\* it, listing UPLOAD_FOLDER, reading or writing a result file, task_done,
\* and the prom_init_once of the monolith src/app.py, which has a lock of
\* its own (_prom_init_lock)
LocalOps ==
    {"read", "mutate_save", "listdir", "file", "task_done", "prom_legacy"}

\* calls that leave the process and are waited for: ffmpeg, ffprobe,
\* whisper-cli (Popen, reading its stdout, wait) and the Gemini request
ExternalOps == {"ffmpeg", "ffprobe", "popen", "stdout", "wait", "refine"}

\* _set_job: the update and _save_jobs inside `with jobs_lock`
SetJobSteps == <<"acquire", "mutate_save", "release">>

\* _get_job: jobs.get inside `with jobs_lock`
GetJobSteps == <<"acquire", "read", "release">>

\* enqueue_stt: put, then prom_init_once for the queue gauge
EnqueueSteps == <<"put", "prom">>

\* _run_whisper: phase saved under the lock, Popen, a line of stdout, the
\* progress saved under the lock, end of stdout, wait, and on exit code 0
\* the final phase saved under the lock
RunWhisperSteps(ok) ==
    SetJobSteps \o <<"popen", "stdout">> \o SetJobSteps \o <<"stdout", "wait">>
        \o (IF ok THEN SetJobSteps ELSE <<>>)

\* _task_transcribe: two prom_init_once, _set_job(RUNNING), _get_job,
\* _run_whisper; then either the FAILED record saved under the lock, or the
\* txt written, two prom_init_once and _set_job(REFINING_PENDING)
TaskTranscribeSteps(ok) ==
    <<"prom", "prom">> \o SetJobSteps \o GetJobSteps \o RunWhisperSteps(ok)
        \o (IF ok THEN <<"file", "prom", "prom">> \o SetJobSteps
            ELSE SetJobSteps)

\* a mutant of _task_refining: refine_transcript called before the lock
\* taken for the description is released
TaskRefiningStepsHoldingLock(configured, refined) ==
    SetJobSteps
        \o (IF configured
            THEN <<"acquire", "read", "refine", "release">>
                     \o (IF refined THEN <<"file">> \o SetJobSteps ELSE <<>>)
            ELSE <<>>)

\* _task_refining: _set_job(REFINING); with Gemini configured the
\* description read under the lock, refine_transcript outside it, and for a
\* non-empty answer the refined file written and its path saved under the lock
TaskRefiningSteps(configured, refined) ==
    SetJobSteps
        \o (IF configured
            THEN GetJobSteps \o <<"refine">>
                     \o (IF refined THEN <<"file">> \o SetJobSteps ELSE <<>>)
            ELSE <<>>)

\* the finally block of worker_loop
FinallySteps == <<"prom", "prom", "task_done">>

\* worker_loop after get(), by the branch taken: the job is terminal; a
\* refine-only task; a transcription that fails; a transcription followed
\* by refinement, _set_job(COMPLETED) and the removal of the input
WorkerPaths ==
    {GetJobSteps \o FinallySteps}
    \cup {GetJobSteps \o <<"file">> \o TaskRefiningSteps(c, r) \o SetJobSteps
              \o FinallySteps : c \in BOOLEAN, r \in BOOLEAN}
    \cup {GetJobSteps \o TaskTranscribeSteps(FALSE) \o FinallySteps}
    \cup {GetJobSteps \o TaskTranscribeSteps(TRUE) \o <<"file">>
              \o TaskRefiningSteps(c, r) \o SetJobSteps \o <<"file">>
              \o FinallySteps : c \in BOOLEAN, r \in BOOLEAN}

\* upload_file: prom_init_once, the upload saved, ffmpeg, ffprobe, the new
\* record saved under the lock, enqueue_stt after the lock is released
UploadSteps ==
    <<"prom", "file", "ffmpeg", "ffprobe">> \o SetJobSteps \o EnqueueSteps

\* job_list reads the table under the lock; job_status reads it without the
\* lock and opens the result file; metrics calls prom_init_once
StatusPrograms ==
    {GetJobSteps, <<"read", "file">>, <<"prom">>}

RECURSIVE EnqueueAll(_)
EnqueueAll(n) == IF n = 0 THEN <<>> ELSE EnqueueSteps \o EnqueueAll(n - 1)

\* a mutant of requeue_pending: enqueue_stt called inside `with jobs_lock`
RequeueStepsInsideLock(n) ==
    <<"acquire", "read", "listdir">> \o EnqueueAll(n) \o <<"release">>

\* requeue_pending: to_enqueue is collected under the lock (the table read,
\* UPLOAD_FOLDER listed), the lock released, then enqueue_stt for each task
RequeueSteps(n) ==
    <<"acquire", "read", "listdir", "release">> \o EnqueueAll(n)

\* the server has loaded a table with at most one job left pending and the
\* lifespan is about to call requeue_pending
LockInit ==
    /\ \E t \in {EmptyTable, 1 :> NewJob(NoDuration)} :
          /\ jobs = t
          /\ disk = save_jobs(t)
          /\ uploads = DOMAIN t
          /\ thr = [NoThreads EXCEPT
                      !["startup"].prog =
                          RequeueSteps(Len(requeue_pending(t, DOMAIN t))),
                      !["startup"].puts = requeue_pending(t, DOMAIN t)]
    /\ results = {}
    /\ refinedFiles = {}
    /\ task_queue = <<>>
    /\ worker_threads = 0
    /\ stopping = FALSE
    /\ pc = "none"
    /\ cur = NoTask
    /\ run = NoRun
    /\ restarts = 0
    /\ callers = NoCallers
    /\ second = NoSecond
    /\ jobs_lock = "free"
    /\ prom_init_done = FALSE

LockDataUnchanged ==
    UNCHANGED <<jobs, disk, files, worker_threads, stopping, pc, cur, run,
                restarts, callers, second>>

Pop(t) == [thr EXCEPT ![t].prog = Tail(@)]
At(t, op) == thr[t].prog # <<>> /\ Head(thr[t].prog) = op

\* `with jobs_lock:` is entered; threading.Lock is not reentrant, so a
\* thread that already holds it waits here for ever
LockAcquire(t) ==
    /\ At(t, "acquire")
    /\ jobs_lock = "free"
    /\ jobs_lock' = t
    /\ thr' = Pop(t)
    /\ UNCHANGED <<task_queue, prom_init_done>>
    /\ LockDataUnchanged

\* the `with jobs_lock:` block is left
LockRelease(t) ==
    /\ At(t, "release")
    /\ jobs_lock = t
    /\ jobs_lock' = "free"
    /\ thr' = Pop(t)
    /\ UNCHANGED <<task_queue, prom_init_done>>
    /\ LockDataUnchanged

\* a step that stays inside the process
LocalStep(t) ==
    /\ thr[t].prog # <<>>
    /\ Head(thr[t].prog) \in LocalOps
    /\ thr' = Pop(t)
    /\ UNCHANGED <<task_queue, jobs_lock, prom_init_done>>
    /\ LockDataUnchanged

\* prom_init_once lines 41-43: return at once when the flag is set,
\* otherwise go on to `with jobs_lock`
PromInitOnce(t) ==
    /\ At(t, "prom")
    /\ thr' = IF prom_init_done THEN Pop(t)
              ELSE [thr EXCEPT ![t].prog =
                        <<"acquire", "prom_locked", "release">> \o Tail(@)]
    /\ UNCHANGED <<task_queue, jobs_lock, prom_init_done>>
    /\ LockDataUnchanged

\* prom_init_once lines 44-61 under the lock: the flag is checked again, the
\* metrics are created if it is not set, and the flag is set
PromLocked(t) ==
    /\ At(t, "prom_locked")
    /\ jobs_lock = t
    /\ prom_init_done' = TRUE
    /\ thr' = Pop(t)
    /\ UNCHANGED <<task_queue, jobs_lock>>
    /\ LockDataUnchanged

\* task_queue.put of enqueue_stt: never blocks, takes no lock
Put(t) ==
    /\ At(t, "put")
    /\ thr[t].puts # <<>>
    /\ task_queue' = Append(task_queue, Head(thr[t].puts))
    /\ thr' = [thr EXCEPT ![t].prog = Tail(@), ![t].puts = Tail(@)]
    /\ UNCHANGED <<jobs_lock, prom_init_done>>
    /\ LockDataUnchanged

\* an external call is started
ExternalBegin(t) ==
    /\ thr[t].prog # <<>>
    /\ Head(thr[t].prog) \in ExternalOps
    /\ ~thr[t].ext
    /\ thr' = [thr EXCEPT ![t].ext = TRUE]
    /\ UNCHANGED <<task_queue, jobs_lock, prom_init_done>>
    /\ LockDataUnchanged

\* the external call returns
ExternalEnd(t) ==
    /\ thr[t].ext
    /\ thr' = [thr EXCEPT ![t].ext = FALSE, ![t].prog = Tail(@)]
    /\ UNCHANGED <<task_queue, jobs_lock, prom_init_done>>
    /\ LockDataUnchanged

\* the server accepts requests once the lifespan has run requeue_pending
Serving == thr["startup"].prog = <<>>

\* a POST /upload arrives
UploadBegin(j) ==
    /\ Serving
    /\ thr["upload"].prog = <<>>
    /\ thr["upload"].runs < MaxRequests
    /\ thr' = [thr EXCEPT !["upload"].prog = UploadSteps,
                          !["upload"].puts = <<Task(j, WavPath)>>,
                          !["upload"].runs = @ + 1]
    /\ UNCHANGED <<task_queue, jobs_lock, prom_init_done>>
    /\ LockDataUnchanged

\* a GET /jobs, GET /job/<id> or GET /metrics arrives
StatusBegin(p) ==
    /\ Serving
    /\ thr["status"].prog = <<>>
    /\ thr["status"].runs < MaxRequests
    /\ thr' = [thr EXCEPT !["status"].prog = p, !["status"].runs = @ + 1]
    /\ UNCHANGED <<task_queue, jobs_lock, prom_init_done>>
    /\ LockDataUnchanged

\* worker_loop line 266: a task is taken from the queue and one branch of the
\* loop body is run
WorkerGet(p) ==
    /\ pc = "get"
    /\ thr["worker"].prog = <<>>
    /\ task_queue # <<>>
    /\ task_queue' = Tail(task_queue)
    /\ thr' = [thr EXCEPT !["worker"].prog = p]
    /\ UNCHANGED <<jobs_lock, prom_init_done>>
    /\ LockDataUnchanged

LockNext ==
    \/ start_worker
    \/ \E t \in Threads : LockAcquire(t)
    \/ \E t \in Threads : LockRelease(t)
    \/ \E t \in Threads : LocalStep(t)
    \/ \E t \in Threads : PromInitOnce(t)
    \/ \E t \in Threads : PromLocked(t)
    \/ \E t \in Threads : Put(t)
    \/ \E t \in Threads : ExternalBegin(t)
    \/ \E t \in Threads : ExternalEnd(t)
    \/ \E j \in JobIds : UploadBegin(j)
    \/ \E p \in StatusPrograms : StatusBegin(p)
    \/ \E p \in WorkerPaths : WorkerGet(p)

LockSpec == LockInit /\ [][LockNext]_vars

\* ------------------------------------------------- the monolith src/app.py
\* src/app.py lines 224-459, worker() after get(): two prom_init_once,
\* status running saved under lock, the phase saved under lock, Popen, a
\* line of stdout, the progress saved under lock, end of stdout, wait; then
\* either the failed record saved under lock, or the final phase saved, the
\* output read and the txt written, the refinement (description read under
\* lock, the Gemini request, the refined path saved under lock), completed
\* saved under lock, two prom_init_once and the input removed; the finally
\* block at the end of both
LegacyWorkerPaths ==
    LET start == <<"prom_legacy", "prom_legacy">> \o SetJobSteps
                     \o SetJobSteps \o <<"popen", "stdout">> \o SetJobSteps
                     \o <<"stdout", "wait">>
        finally == <<"prom_legacy", "prom_legacy", "task_done">>
    IN  {start \o SetJobSteps \o finally}
        \cup {start \o SetJobSteps \o <<"file", "file">>
                  \o (IF c THEN GetJobSteps \o <<"refine">>
                                  \o (IF r THEN <<"file">> \o SetJobSteps
                                      ELSE <<>>)
                      ELSE <<>>)
                  \o SetJobSteps \o <<"prom_legacy", "prom_legacy", "file">>
                  \o finally : c \in BOOLEAN, r \in BOOLEAN}

RECURSIVE LegacyRequeueEach(_)
LegacyRequeueEach(n) ==
    IF n = 0 THEN <<>>
    ELSE <<"listdir", "put", "prom_legacy">> \o LegacyRequeueEach(n - 1)

\* src/app.py lines 481-502, _startup_requeue_pending: inside `with lock`,
\* for each pending or running job the upload directory is listed and
\* stt_job (put, prom_init_once) is called; the lock is released at the end
LegacyStartupSteps(n) ==
    <<"acquire", "read">> \o LegacyRequeueEach(n) \o <<"release">>

\* src/app.py lines 461-463: the worker thread is started when the module is
\* imported, before the startup handler runs; the table loaded has one job
\* left pending or running with its wav present
LegacyInit ==
    /\ \E st \in {PENDING, RUNNING} :
         LET t == 1 :> [NewJob(NoDuration) EXCEPT !.status = st]
         IN  /\ jobs = t
             /\ disk = save_jobs(t)
             /\ thr = [NoThreads EXCEPT
                         !["startup"].prog =
                             LegacyStartupSteps(
                                 Len(requeue_pending(t, {1}))),
                         !["startup"].puts = requeue_pending(t, {1})]
    /\ uploads = {1}
    /\ results = {}
    /\ refinedFiles = {}
    /\ task_queue = <<>>
    /\ worker_threads = 1
    /\ stopping = FALSE
    /\ pc = "get"
    /\ cur = NoTask
    /\ run = NoRun
    /\ restarts = 0
    /\ callers = NoCallers
    /\ second = NoSecond
    /\ jobs_lock = "free"
    /\ prom_init_done = FALSE

LegacyNext ==
    \/ \E t \in Threads : LockAcquire(t)
    \/ \E t \in Threads : LockRelease(t)
    \/ \E t \in Threads : LocalStep(t)
    \/ \E t \in Threads : Put(t)
    \/ \E t \in Threads : ExternalBegin(t)
    \/ \E t \in Threads : ExternalEnd(t)
    \/ \E p \in LegacyWorkerPaths : WorkerGet(p)

LegacySpec == LegacyInit /\ [][LegacyNext]_vars

\* ----------------------------------------------------------------- claims
Has(j) == j \in DOMAIN jobs
Status(j) == jobs[j].status
Terminal(j) == Has(j) /\ Status(j) \in {COMPLETED, FAILED}
Queued(j) == \E i \in 1..Len(task_queue) : task_queue[i] = Task(j, WavPath)


\* C1: every change of a job's status, in the table and in the job file,
\* follows one of the six edges of the state machine.
C1_Edges ==
    {<<PENDING, RUNNING>>, <<RUNNING, REFINING_PENDING>>,
     <<REFINING_PENDING, REFINING>>, <<REFINING, COMPLETED>>,
     <<RUNNING, FAILED>>, <<REFINING, FAILED>>}

C1_EdgeStep(t, u) ==
    \A j \in DOMAIN t :
        /\ j \in DOMAIN u
        /\ u[j].status # t[j].status => <<t[j].status, u[j].status>> \in C1_Edges

C1_StatusFollowsEdges ==
    [][C1_EdgeStep(jobs, jobs') /\ C1_EdgeStep(disk.table, disk'.table)]_vars

\* C1 witness: a job has gone all the way to completed
C1_Witness == \E j \in JobIds : Has(j) /\ Status(j) = COMPLETED

\* C2: a completed or failed job keeps its status, and a task dequeued for a
\* job outside the four active statuses goes straight to task_done and back
\* to the queue with the table, the job file and every file unchanged.
C2_TerminalAndDropped ==
    [][ /\ \A j \in DOMAIN jobs :
              jobs[j].status \in {COMPLETED, FAILED}
                  => j \in DOMAIN jobs' /\ jobs'[j].status = jobs[j].status
        /\ ( /\ pc = "get" /\ pc' \notin {"get", "none"}
             /\ Head(task_queue).id \in DOMAIN jobs
             /\ jobs[Head(task_queue).id].status \in {COMPLETED, FAILED} )
           => /\ pc' = "finally"
              /\ UNCHANGED <<jobs, disk, files>>
        /\ (pc = "finally" /\ pc' = "get") => UNCHANGED <<jobs, disk, files>>
      ]_vars

\* C2 witness: the worker has just dropped a task of a terminal job
C2_Witness ==
    /\ pc = "finally" /\ run = NoRun
    /\ Has(cur.id) /\ Status(cur.id) \in {COMPLETED, FAILED}

\* C3: a pending job whose task is queued eventually is completed or failed
\* (worker running, process exits or is killed, refinement returns).
C3_PendingEventuallyTerminal ==
    \A j \in JobIds :
        (Has(j) /\ Status(j) = PENDING /\ Queued(j)) ~> Terminal(j)

\* C3: the state the pipeline is left in when the transcript write failed
C3_Stuck ==
    /\ pc = "get" /\ task_queue = <<>>
    /\ \E j \in JobIds : Has(j) /\ Status(j) = RUNNING

\* C4: after a run whose process exited non-zero with the timer never fired,
\* the job is failed, has no result and no timeout detail; and no failed job
\* ever has a result.
C4_NonZeroExitFails ==
    /\ (pc = "finally" /\ run.proc = "exit1" /\ run.timer = "cancelled")
        => /\ Status(cur.id) = FAILED
           /\ jobs[cur.id].result = None
           /\ jobs[cur.id].status_detail # TIMEOUT_DETAIL
    /\ \A j \in DOMAIN jobs : Status(j) = FAILED => jobs[j].result = None

\* C4 witness: such a run has just been handled
C4_Witness ==
    /\ pc = "finally" /\ run.proc = "exit1" /\ run.timer = "cancelled"
    /\ Status(cur.id) = FAILED

\* C5: after a run whose process was killed by the timer while still alive,
\* the job is failed with the timeout detail, whatever the interleaving.
C5_KilledMeansTimeout ==
    (pc = "finally" /\ run.proc = "killed")
        => /\ Status(cur.id) = FAILED
           /\ jobs[cur.id].status_detail = TIMEOUT_DETAIL

\* C5: a killed run that did end as a timeout
C5_Witness ==
    /\ pc = "finally" /\ run.proc = "killed"
    /\ jobs[cur.id].status_detail = TIMEOUT_DETAIL

C7_RefineFailures == {"error", "ratelimited", "writefail"}

C7_RefinementFailureCompletes ==
    /\ ( /\ pc \in {"remove", "finally"}
         /\ run.proc = "exit0" /\ run.exc = None
         /\ run.refine \in C7_RefineFailures )
        => /\ Status(cur.id) = COMPLETED
           /\ jobs[cur.id].result = TxtPath
           /\ jobs[cur.id].result_refined = None
    /\ (pc = "set_completed" /\ run.refine \in C7_RefineFailures)
        => Status(cur.id) = REFINING

\* C7 witness: completed after the refined file could not be written
C7_Witness ==
    /\ pc = "finally" /\ run.proc = "exit0" /\ run.refine = "writefail"
    /\ Status(cur.id) = COMPLETED

\* the process has just been started again and no later restart follows
Restarted ==
    restarts = MaxRestarts /\ restarts > 0 /\ pc = "none" /\ ~stopping

\* C8: after a restart, a job persisted as running whose wav is still in the
\* upload directory is re-enqueued and eventually completed or failed.
C8_RunningJobRecovered ==
    \A j \in JobIds :
        [](( /\ Restarted /\ Has(j) /\ Status(j) = RUNNING /\ j \in uploads )
            => (Queued(j) /\ <>Terminal(j)))

\* C8: a restart that found such a job and re-enqueued it
C8_Witness ==
    /\ Restarted
    /\ \E j \in JobIds :
          Has(j) /\ Status(j) = RUNNING /\ j \in uploads /\ Queued(j)

\* C9: after a restart, a job persisted in any of the four non-terminal
\* statuses has been re-enqueued (and so can resume and reach a terminal
\* status).
C9_AnyStageRequeued ==
    \A j \in JobIds :
        (Restarted /\ Has(j) /\ Status(j) \in ActiveStatuses) => Queued(j)

\* C9: a restart that found a job in a refinement status
C9_Witness ==
    /\ Restarted
    /\ \E j \in JobIds : Has(j) /\ Status(j) \in {REFINING_PENDING, REFINING}

\* C10: from the reset to 0 to the end-of-stream update of one run, the
\* stored progress_percent never decreases.
C10_ProgressMonotone ==
    [][ ( /\ pc \in {"rw_read", "rw_wait", "rw_check"}
          /\ pc' \in {"rw_read", "rw_wait", "rw_check", "tt_write"} )
        => jobs'[cur.id].progress_percent >= jobs[cur.id].progress_percent
      ]_vars

\* C10: a run has stored a percent above 100
C10_Witness ==
    /\ pc \in {"rw_read", "rw_wait", "rw_check"}
    /\ jobs[cur.id].progress_percent > 100

\* C11: for a matched timeline line starting at s seconds the percent before
\* clamping is floor(s / total * 100) when the duration is known and
\* positive, and 0 when it is absent: the percent the run keeps is that
\* value, raised to the highest percent seen so far.
C11_Floor(s, total) == IF total > 0 THEN (s * 100) \div total ELSE 0

C11_PercentIsFloor ==
    [][ \A s \in 0..MaxStart :
          ReadTimeline(s)
            => run'.last_percent =
                 Max(C11_Floor(s, jobs[cur.id].media_duration_seconds),
                     run.max_percent)
      ]_vars

\* C11: the first line of a run of a 50 s medium has been read and the run
\* keeps percent 57
C11_Witness ==
    /\ pc = "rw_read" /\ run.nread = 1 /\ run.saw_timeline
    /\ jobs[cur.id].media_duration_seconds = 50
    /\ jobs[cur.id].progress_percent = 57

\* C12: the end-of-stream update of a run that exited with code 0 stores the
\* finished phase; it stores progress 100 if a timeline line was matched in
\* the run, and otherwise leaves progress_percent as it was (not 100).
C12_EndOfStream ==
    [][ (pc = "rw_check" /\ pc' = "tt_write")
        => /\ run.proc = "exit0"
           /\ jobs'[cur.id].phase = PHASE_FINISHED
           /\ load_jobs(disk') = jobs'
           /\ IF run.saw_timeline
              THEN jobs'[cur.id].progress_percent = 100
              ELSE /\ jobs'[cur.id].progress_percent
                        = jobs[cur.id].progress_percent
                   /\ jobs'[cur.id].progress_percent # 100
      ]_vars

\* C12: a successful run without any timeline line has been marked finished
C12_Witness ==
    /\ pc = "tt_write" /\ run.proc = "exit0" /\ ~run.saw_timeline
    /\ run.nread > 0
    /\ jobs[cur.id].phase = PHASE_FINISHED
    /\ jobs[cur.id].progress_percent = 0

\* what the job file holds, apart from the temp file next to it
Canonical(d) == <<d.state, d.table>>

\* C13 as stated: at every step of a save (so wherever a crash stops it) the
\* job file holds the complete previous table or the complete new one, and
\* is never partial or empty.
C13_CrashAtomic ==
    [][ (pc \in SavePcs)
        => /\ \/ Canonical(disk') = Canonical(disk)
              \/ Canonical(disk') = Canonical(save_jobs(jobs))
           /\ (disk'.state \in {"empty", "corrupt"} => disk'.state = disk.state)
      ]_vars

\* C13 amended: the same, except that the lock step of the first save turns
\* a missing job file into a zero-length one; a saved table is never lost,
\* and load_jobs gives the previous table or the new one at every step.
C13_CrashAtomicOrCreated ==
    [][ (pc \in SavePcs)
        => /\ \/ Canonical(disk') = Canonical(disk)
              \/ Canonical(disk') = Canonical(save_jobs(jobs))
              \/ disk.state = "missing" /\ disk'.state = "empty"
           /\ (disk.state = "ok" => disk'.state = "ok")
           /\ load_jobs(disk') \in {load_jobs(disk), jobs}
      ]_vars

\* C13 witness: the process died in the middle of a save, after the temp
\* file was created, and the table saved before is still in the job file
C13_Witness ==
    /\ pc = "down" /\ restarts > 0
    /\ disk.tmp \in {"empty", "partial", "full"}
    /\ disk.state = "ok" /\ disk.table # EmptyTable

\* C14: load_jobs on a missing, zero-length or unparsable job file returns
\* the empty table, and the import goes on (nothing is raised).
C14_LoadOfBadFileIsEmpty ==
    [][ (pc = "down" /\ pc' # "down")
        => /\ pc' = "idle"
           /\ (disk.state \in {"missing", "empty", "corrupt"}
                 => jobs' = EmptyTable)
      ]_vars

\* C14 witness: started from an unparsable file that held a job
C14_Witness ==
    /\ pc = "idle" /\ disk.state = "corrupt" /\ disk.table # EmptyTable
    /\ jobs = EmptyTable

C16_Union(a, b) ==
    [j \in DOMAIN a \cup DOMAIN b |-> IF j \in DOMAIN b THEN b[j] ELSE a[j]]

RateLimit == "rate_limit"

\* C17: after two rate-limit errors a third attempt is made, with exactly
\* two backoff waits behind it, and when it answers the call returns its text.
C17_ThirdAttemptSucceeds ==
    /\ run.resps = <<RateLimit, RateLimit>>
         => pc = "refine_attempt" /\ Len(run.waits) = 2
    /\ \A x \in {"text", "empty"} :
         run.resps = <<RateLimit, RateLimit, x>>
           => run.refine \in {x, "writefail"} /\ Len(run.waits) = 2

\* C17 witness: the third attempt has answered with a text after two
\* rate-limit errors
C17_Witness ==
    /\ run.resps = <<RateLimit, RateLimit, "text">>
    /\ pc = "ref_write" /\ run.refine = "text"

\* C18: when every attempt raises a rate-limit error there are exactly 3
\* attempts, with waits of 5 s and then 10 s between them and none after the
\* last, and the call ends by raising.
C18_RateLimitExhausted ==
    /\ Len(run.resps) <= 3
    /\ run.resps = <<RateLimit>>
         => pc = "refine_attempt" /\ run.waits = <<5>>
    /\ run.resps = <<RateLimit, RateLimit>>
         => pc = "refine_attempt" /\ run.waits = <<5, 10>>
    /\ run.resps = <<RateLimit, RateLimit, RateLimit>>
         => /\ pc # "refine_attempt"
            /\ run.refine = "ratelimited"
            /\ run.waits = <<5, 10>>

\* C18 witness: the third rate-limit error has ended the call
C18_Witness ==
    /\ run.resps = <<RateLimit, RateLimit, RateLimit>>
    /\ pc = "set_completed" /\ run.refine = "ratelimited"

\* C19: an error that is no rate limit ends the call at once, on whichever
\* attempt it comes: no attempt and no wait follows it.
C19_OtherErrorIsImmediate ==
    (run.resps # <<>> /\ run.resps[Len(run.resps)] = "other_error")
        => /\ pc # "refine_attempt"
           /\ run.refine = "error"
           /\ Len(run.waits) = Len(run.resps) - 1

\* C19 witness: the second attempt failed with another error
C19_Witness ==
    /\ run.resps = <<RateLimit, "other_error">>
    /\ pc = "set_completed" /\ run.refine = "error" /\ run.waits = <<5>>

C20_PastRunning == {REFINING_PENDING, REFINING, COMPLETED}

\* C20: no job skips running. A job leaves pending only for running; a task
\* with an input path that finds its job pending or running stores running
\* first; and a job gets past running only from running, in a task with an
\* input path whose transcription process exited 0 and whose transcript is
\* written.
C20_NoJobSkipsRunning ==
    [][ /\ \A j \in DOMAIN jobs :
              /\ j \in DOMAIN jobs'
              /\ (jobs[j].status = PENDING /\ jobs'[j].status # PENDING)
                    => /\ jobs'[j].status = RUNNING
                       /\ load_jobs(disk')[j].status = RUNNING
              /\ ( /\ jobs[j].status \notin C20_PastRunning
                   /\ jobs'[j].status \in C20_PastRunning )
                    => /\ jobs[j].status = RUNNING
                       /\ cur = Task(j, WavPath)
                       /\ run.proc = "exit0"
                       /\ j \in results
        /\ ( /\ pc = "get" /\ pc' \notin {"get", "none"}
             /\ Head(task_queue).id \in DOMAIN jobs
             /\ Head(task_queue).path # EmptyPath
             /\ jobs[Head(task_queue).id].status \in {PENDING, RUNNING} )
              => pc' = "set_running"
        /\ (pc = "set_running" /\ pc' \notin {"set_running", "none"})
              => /\ pc' = "rw_init"
                 /\ jobs'[cur.id].status = RUNNING
                 /\ load_jobs(disk')[cur.id].status = RUNNING
      ]_vars

\* C20 witness: a task with an input path has brought its job from pending
\* through a successful transcription to refining
C20_Witness ==
    /\ pc = "refine_call" /\ cur.path = WavPath
    /\ run.proc = "exit0" /\ cur.id \in results
    /\ Status(cur.id) = REFINING


\* C21: a task with an empty path is refinement-only. Dequeued for a job in
\* refining_pending or refining it goes to the refinement stage (never to
\* transcription), stores refining and then completed; dequeued for a job in
\* any other status it is dropped, with the table, the job file and every
\* file unchanged.
C21_RefineOnlyTask ==
    [][ /\ ( /\ pc = "get" /\ pc' \notin {"get", "none"}
             /\ Head(task_queue).id \in DOMAIN jobs
             /\ Head(task_queue).path = EmptyPath )
           => IF jobs[Head(task_queue).id].status \in {REFINING_PENDING, REFINING}
              THEN pc' = "set_refining" /\ cur' = Head(task_queue)
              ELSE pc' = "finally" /\ UNCHANGED <<jobs, disk, files>>
        /\ (cur.id \in DOMAIN jobs /\ cur.path = EmptyPath)
           => /\ pc' \notin {"set_running", "rw_init", "rw_read", "tt_write",
                             "tt_done", "remove"}
              /\ (pc = "set_refining" /\ pc' \notin {"set_refining", "none"})
                    => /\ pc' = "refine_call"
                       /\ jobs'[cur.id].status = REFINING
              /\ (pc = "set_completed" /\ pc' \notin {"set_completed", "none"})
                    => /\ pc' = "finally"
                       /\ jobs'[cur.id].status = COMPLETED
                       /\ load_jobs(disk')[cur.id].status = COMPLETED
              /\ (pc = "finally" /\ pc' = "get")
                    => UNCHANGED <<jobs, disk, files>>
      ]_vars

\* C21 witness: a refinement-only task has re-run the refinement stage and
\* completed its job
C21_Witness ==
    /\ pc = "finally" /\ cur.path = EmptyPath
    /\ Has(cur.id) /\ Status(cur.id) = COMPLETED
    /\ run.refine # None


\* C22: result is stored at the end of a successful transcription run, so a
\* job in refining_pending, refining or completed has its result; and a
\* stored result is never cleared or changed.
C22_ResultSetAtTranscription ==
    [][ /\ \A j \in DOMAIN jobs' :
              jobs'[j].status \in {REFINING_PENDING, REFINING, COMPLETED}
                  => /\ jobs'[j].result # None
                     /\ load_jobs(disk')[j].result # None
        /\ \A j \in DOMAIN jobs :
              jobs[j].result # None
                  => j \in DOMAIN jobs' /\ jobs'[j].result = jobs[j].result
      ]_vars

\* C22: the transcript is written and the job is in refining_pending, with
\* no result in its record
C22_Witness ==
    \E j \in JobIds :
        /\ Has(j) /\ Status(j) = REFINING_PENDING
        /\ j \in results /\ jobs[j].result = None

\* C23: every completed job has its result, in the table and in the job
\* file, whichever task completed it.
C23_CompletedHasResult ==
    \A j \in JobIds :
        (Has(j) /\ Status(j) = COMPLETED)
            => /\ jobs[j].result # None
               /\ load_jobs(disk)[j].result # None

\* C23: after a restart a refinement-only task has completed a job whose
\* record has no result
C23_Witness ==
    /\ restarts > 0 /\ pc = "finally" /\ cur.path = EmptyPath
    /\ Has(cur.id) /\ Status(cur.id) = COMPLETED
    /\ jobs[cur.id].result = None

\* C24: result_refined is stored only in a record that has its result, and
\* is stored at most once per job.
C24_RefinedAfterResult ==
    [][ /\ \A j \in DOMAIN jobs' :
              jobs'[j].result_refined # None => jobs'[j].result # None
        /\ (pc = "ref_record" /\ pc' = "set_completed")
              => jobs[cur.id].result_refined = None
      ]_vars

\* C24: a record with result_refined and no result
C24_Witness ==
    \E j \in JobIds :
        Has(j) /\ jobs[j].result_refined # None /\ jobs[j].result = None

\* C25: the input file is gone once the transcription has succeeded: it does
\* not exist while the job is refining, whatever the refinement stage does.
C25_InputGoneWhileRefining ==
    \A j \in JobIds :
        (Has(j) /\ Status(j) \in {REFINING_PENDING, REFINING}) => j \notin uploads

\* C25: the refinement call of a task is in progress and the input file of
\* its job is still in the upload directory
C25_Witness ==
    /\ pc = "refine_attempt" /\ cur.path = WavPath
    /\ Status(cur.id) = REFINING /\ cur.id \in uploads

\* C26: when the transcript cannot be written after the process exited 0,
\* the task ends with its job failed.
C26_WriteFailureFails ==
    (pc = "finally" /\ run.exc = "OSError" /\ Has(cur.id))
        => /\ Status(cur.id) = FAILED
           /\ load_jobs(disk)[cur.id].status = FAILED

\* C26: the write has failed and the task ends with its job still running
C26_Witness ==
    /\ pc = "finally" /\ run.exc = "OSError" /\ run.proc = "exit0"
    /\ Has(cur.id) /\ Status(cur.id) = RUNNING


\* the number of tasks of job j in queue q
C27_Count(q, j) == Cardinality({i \in 1..Len(q) : q[i].id = j})

\* C27: startup recovery leaves in the queue exactly one task (job id, wav
\* path) for every job persisted as pending or running whose wav is in the
\* upload directory, and no task for any other job.
C27_OneTaskPerRecoverableJob ==
    [][ (restarts' = restarts + 1)
          => /\ \A j \in JobIds :
                   C27_Count(task_queue', j) =
                       IF /\ j \in DOMAIN load_jobs(disk)
                          /\ load_jobs(disk)[j].status \in {PENDING, RUNNING}
                          /\ j \in uploads
                       THEN 1 ELSE 0
             /\ \A i \in 1..Len(task_queue') :
                   /\ task_queue'[i].id \in JobIds
                   /\ task_queue'[i].path = WavPath
      ]_vars

\* C27 witness: a restart has found a pending job with its wav and enqueued
\* its one task
C27_Witness ==
    /\ Restarted
    /\ task_queue = <<Task(1, WavPath)>>
    /\ Has(1) /\ Status(1) = PENDING /\ 1 \in uploads

\* C28: startup recovery changes no job record: the table after it is the
\* persisted one, the job file is untouched, and every job (one whose wav
\* is missing included) has every field as before.
C28_RecoveryChangesNoRecord ==
    [][ (restarts' = restarts + 1)
          => /\ jobs' = load_jobs(disk)
             /\ disk' = disk
             /\ \A j \in DOMAIN jobs : j \in DOMAIN jobs' /\ jobs'[j] = jobs[j]
      ]_vars

\* C28 witness: a restart has found a pending or running job whose wav is
\* missing; it is not enqueued and keeps its status
C28_Witness ==
    /\ Restarted
    /\ \E j \in JobIds :
          /\ Has(j) /\ Status(j) \in {PENDING, RUNNING}
          /\ j \notin uploads /\ ~Queued(j)


\* the first worker has a transcription process or a refinement call in
\* progress; the second worker has
C29_Busy == pc \in {"rw_read", "rw_wait", "refine_attempt"}
C29_SecondBusy == second.pc \in {"transcribing", "refining"}

\* C29: there is one worker thread at most, at most one transcription
\* process or refinement call is in progress, and no job is held by two
\* worker tasks at once, also when start_worker is called concurrently.
C29_SingleWorker ==
    /\ worker_threads <= 1
    /\ ~(C29_Busy /\ C29_SecondBusy)
    /\ ~(cur.id \in JobIds /\ second.cur.id = cur.id)

\* C29: two calls of start_worker have each started a worker thread, and
\* both threads run a transcription process for the same job
C29_Witness ==
    /\ callers = [c \in Callers |-> "returned"] /\ worker_threads = 2
    /\ pc = "rw_read" /\ run.proc = "running"
    /\ second.pc = "transcribing" /\ second.cur = cur

\* C30: after shutdown_workers the worker ends only by taking the sentinel
\* from the head of the queue, at task_queue.get(), and when the process
\* ends the worker has stopped that way or is idle at task_queue.get() with
\* no real task left: no task in execution or queued ahead of the sentinel
\* is cut short or lost.
C30_GracefulShutdown ==
    [][ /\ (pc # "stopped" /\ pc' = "stopped")
              => pc = "get" /\ Head(task_queue) = Sentinel
        /\ (stopping /\ stopping' /\ pc # "none" /\ pc' = "none")
              => /\ pc \in {"stopped", "get"}
                 /\ \A i \in 1..Len(task_queue) : task_queue[i] = Sentinel
      ]_vars

\* C30: the sentinel is queued and the worker is in the middle of a
\* transcription run when the process ends
C30_Witness ==
    /\ stopping /\ pc = "rw_read" /\ run.proc = "running"
    /\ \E i \in 1..Len(task_queue) : task_queue[i] = Sentinel


\* C31: without a restart, the transcription process is launched for a job
\* at most once, however many tasks with its id and input path are queued:
\* a launch finds a job no earlier run has touched (no phase stored yet).
C31_DuplicateRunsOnce ==
    [][ (restarts = 0 /\ pc = "rw_init" /\ pc' = "rw_read")
            => jobs[cur.id].phase = None ]_vars

\* C31: a duplicate task is about to launch the process for a job whose
\* first run has already finished
C31_Witness ==
    /\ restarts = 0 /\ pc = "rw_init" /\ cur.path = WavPath
    /\ jobs[cur.id].phase = PHASE_FINISHED /\ cur.id \in uploads

\* the first worker is inside its transcription run, from Popen to the
\* return code
C34_ProcessStarted == pc \in {"rw_read", "rw_wait", "rw_check"}

\* C34: the persisted status of a job moves only one step along pending,
\* running, refining_pending, refining, completed (or to failed), so a job
\* that gets from pending to completed has had exactly these five statuses
\* on disk; and while the transcription process runs the persisted status
\* is running, while the refinement call runs it is refining.
C34_StatusPersistedBeforeStage ==
    [][ /\ \A j \in DOMAIN load_jobs(disk) :
              LET old == load_jobs(disk)[j].status
                  new == load_jobs(disk')[j].status
              IN /\ j \in DOMAIN load_jobs(disk')
                 /\ new = RUNNING => old \in {PENDING, RUNNING}
                 /\ new = REFINING_PENDING
                        => old \in {RUNNING, REFINING_PENDING}
                 /\ new = REFINING => old \in {REFINING_PENDING, REFINING}
                 /\ new = COMPLETED => old \in {REFINING, COMPLETED}
                 /\ new = PENDING => old = PENDING
        /\ C34_ProcessStarted'
              => load_jobs(disk')[cur'.id].status = RUNNING
        /\ (pc' = "refine_attempt")
              => load_jobs(disk')[cur'.id].status = REFINING
      ]_vars

\* C34 witness: without a restart a task with an input path has taken its
\* job through both stages to completed
C34_Witness ==
    /\ restarts = 0 /\ pc = "remove" /\ cur.path = WavPath
    /\ run.proc = "exit0" /\ run.refine = "text"
    /\ load_jobs(disk)[cur.id].status = COMPLETED

\* C37: every stored progress_percent is in 0..100 (a record without the
\* key aside).
C37_PercentInRange ==
    \A j \in DOMAIN jobs :
        jobs[j].progress_percent # NoPercent
            => jobs[j].progress_percent \in 0..100

\* C37: a timeline line whose start time is beyond the total duration has
\* been read and its percent stored
C37_Witness ==
    /\ pc = "rw_read" /\ Has(cur.id)
    /\ jobs[cur.id].media_duration_seconds = 2
    /\ jobs[cur.id].progress_percent = 150

\* C39: a job whose persisted status is pending or running has its input
\* file in the upload directory, and only a task that has persisted
\* completed for its job removes an input file.
C39_InputKeptUntilCompleted ==
    [][ /\ \A j \in DOMAIN load_jobs(disk') :
              load_jobs(disk')[j].status \in {PENDING, RUNNING}
                  => j \in uploads'
        /\ \A j \in uploads :
              j \notin uploads'
                  => /\ cur = Task(j, WavPath)
                     /\ load_jobs(disk)[j].status = COMPLETED
      ]_vars

\* C39 witness: after a failed run and a restart the job is persisted as
\* failed or running and its input file is still there
C39_Witness ==
    /\ restarts > 0 /\ pc = "finally" /\ run.exc # None
    /\ Has(cur.id) /\ Status(cur.id) \in {RUNNING, FAILED}
    /\ cur.id \in uploads


\* C38: the worker thread ends only by taking the sentinel: whatever the
\* task at the head of the queue leads to, the thread is not ended by it and
\* comes back to task_queue.get().
C38_EndsOnlyOnSentinel ==
    [][ (pc' # pc /\ pc' \in {"stopped", "dead"})
            => /\ pc = "get" /\ pc' = "stopped"
               /\ Head(task_queue) = Sentinel ]_vars

\* C38: the worker thread has died on a task of an unknown id while a task
\* is still queued
C38_Witness ==
    /\ pc = "dead" /\ task_queue # <<>> /\ ~stopping


\* C33: whenever no save is under way (the lock is free), the table in the
\* job file is the table in memory.
C33_DiskEqualsMemory ==
    (pc \in {"idle", "saved"}) => load_jobs(disk) = jobs

\* C33: save_jobs has returned normally and the job file does not hold the
\* table it was given
C33_Witness ==
    /\ pc = "saved" /\ jobs # EmptyTable
    /\ load_jobs(disk) # jobs


\* C32: started_at and completed_at (with their _ts twins) and duration are
\* each written at most once per job: no step changes a stamp the record
\* already carries, nor a duration value it already carries
C32_StampsWrittenOnce ==
    [][ \A j \in DOMAIN jobs :
          j \in DOMAIN jobs' =>
            /\ jobs[j].started_ts # NoStamp
                  => jobs'[j].started_ts = jobs[j].started_ts
            /\ jobs[j].completed_ts # NoStamp
                  => jobs'[j].completed_ts = jobs[j].completed_ts
            /\ jobs[j].duration.kind # "null"
                  => jobs'[j].duration = jobs[j].duration ]_vars

\* C32 witness: a transcription has finished and stored completed_at and the
\* duration of a job whose start stamp was already stored
C32_Witness ==
    /\ pc = "set_refining"
    /\ Has(cur.id)
    /\ jobs[cur.id].started_ts # NoStamp
    /\ jobs[cur.id].completed_ts # NoStamp
    /\ jobs[cur.id].duration.kind = "text"


C40_NoSelfDeadlock ==
    \A t \in Threads : At(t, "acquire") => jobs_lock # t

\* C40 witness: requeue_pending has released the lock and put a task, and
\* prom_init_once inside enqueue_stt is about to take the lock
C40_Witness ==
    /\ Len(thr["startup"].prog) >= 2
    /\ thr["startup"].prog[1] = "acquire"
    /\ thr["startup"].prog[2] = "prom_locked"
    /\ task_queue # <<>>
    /\ jobs_lock = "free"


\* C36: startup recovery has finished its re-enqueueing when the worker loop
\* takes its first task (and so any task) from the queue
C36_RecoveryBeforeFirstDequeue ==
    [][ (thr["worker"].prog = <<>> /\ thr'["worker"].prog # <<>>)
            => thr["startup"].prog = <<>> ]_vars

\* C36 witness: the worker holds a task it has taken from the queue while the
\* startup handler is still inside its recovery
C36_Witness ==
    /\ thr["worker"].prog # <<>>
    /\ thr["startup"].prog # <<>>
    /\ jobs_lock = "startup"

====
